---- MODULE Spec2Model ----
(***************************************************************************)
(* A model of the two canvas post-processing effects of src/main.js        *)
(* (the A-Frame components "pixel-sorter" and "ascii-shader") and of the   *)
(* UI handlers that drive them.                                            *)
(*                                                                         *)
(* Numbers.  JavaScript numbers are modelled by exact rationals <<n, d>>   *)
(* (d > 0, lowest terms).  threshold is kept in hundredths, which is what  *)
(* the slider produces (1 - value/100).  Date.now() is kept in             *)
(* milliseconds.                                                           *)
(***************************************************************************)
EXTENDS Integers, Sequences, FiniteSets, TLC

(***************************************************************************)
(* Bounds of the model.                                                    *)
(***************************************************************************)
\* the window is MaxWidth or MaxWidth - 1 CSS pixels wide, and MaxHeight or
\* MaxHeight - 1 high
MaxWidth == 3
MaxHeight == 3
\* the clock advances at most this many times, ClockStep milliseconds each
MaxClockSteps == 1
\* a quarter of the 5000 ms period of the time term of the hue shift
ClockStep == 5000 \div 4
\* the user acts (slider, button, window resize) at most this many times
MaxInputs == 3
\* largest row width of the sortRow specification
MaxRowWidth == 4
\* largest sortLength the sortRow specification draws besides the default
MaxSortLength == 3

(***************************************************************************)
(* Exact rational arithmetic standing for JavaScript's number arithmetic.  *)
(***************************************************************************)
Abs(n) == IF n < 0 THEN 0 - n ELSE n

RECURSIVE GCD(_, _)
GCD(a, b) == IF b = 0 THEN a ELSE GCD(b, a % b)

Rat(n, d) ==
    LET g == GCD(Abs(n), Abs(d))
        sgn == IF d < 0 THEN 0 - 1 ELSE 1
    IN  <<(sgn * n) \div g, (sgn * d) \div g>>

RInt(n) == <<n, 1>>
RAdd(p, q) ==
    LET g == GCD(p[2], q[2])
    IN  Rat(p[1] * (q[2] \div g) + q[1] * (p[2] \div g), (p[2] \div g) * q[2])
RNeg(p) == <<0 - p[1], p[2]>>
RSub(p, q) == RAdd(p, RNeg(q))
RMul(p, q) ==
    LET a == Rat(p[1], q[2])
        b == Rat(q[1], p[2])
    IN  <<a[1] * b[1], a[2] * b[2]>>
RDiv(p, q) == RMul(p, Rat(q[2], q[1]))
RLess(p, q) == p[1] * q[2] < q[1] * p[2]
RMin(p, q) == IF RLess(q, p) THEN q ELSE p
\* Math.floor
RFloor(p) == p[1] \div p[2]
\* Math.floor of the double that stands for the exact number p: the double
\* of a whole number can lie just below it
FloorsOfDouble(p) == IF p[2] = 1 THEN {p[1] - 1, p[1]} ELSE {RFloor(p)}
\* x % 1 : the remainder keeps the sign of the dividend
RMod1(p) ==
    IF p[1] >= 0 THEN <<p[1] % p[2], p[2]>>
    ELSE <<0 - ((0 - p[1]) % p[2]), p[2]>>

Max3(a, b, c) ==
    IF a >= b /\ a >= c THEN a ELSE IF b >= c THEN b ELSE c
Min3(a, b, c) ==
    IF a <= b /\ a <= c THEN a ELSE IF b <= c THEN b ELSE c

\* a store into ImageData.data, a Uint8ClampedArray
ToUint8Clamped(n) == IF n < 0 THEN 0 ELSE IF n > 255 THEN 255 ELSE n

(***************************************************************************)
(* Pixels are <<r, g, b, a>>.                                              *)
(***************************************************************************)
\* r + g + b, three times the brightness (r + g + b) / 3 of the source
Sum3(p) == p[1] + p[2] + p[3]

\* RGB -> HSL of sortRow; the result is <<h, s, l>>
RgbToHsl(p) ==
    LET max == Max3(p[1], p[2], p[3])
        min == Min3(p[1], p[2], p[3])
        l   == Rat(max + min, 510)
        d   == max - min
        s   == IF max + min > 255 THEN Rat(d, 510 - max - min)
                                 ELSE Rat(d, max + min)
        h6  == IF max = p[1]
                 THEN RAdd(Rat(p[2] - p[3], d), RInt(IF p[2] < p[3] THEN 6 ELSE 0))
               ELSE IF max = p[2]
                 THEN RAdd(Rat(p[3] - p[1], d), RInt(2))
               ELSE RAdd(Rat(p[1] - p[2], d), RInt(4))
    IN  IF max = min THEN <<RInt(0), RInt(0), l>>
        ELSE <<RDiv(h6, RInt(6)), s, l>>

\* Hue2Rgb without the wrap of t into [0, 1]
Hue2RgbNoWrap(p, q, t) ==
    IF RLess(t, Rat(1, 6)) THEN RAdd(p, RMul(RMul(RSub(q, p), RInt(6)), t))
    ELSE IF RLess(t, Rat(1, 2)) THEN q
    ELSE IF RLess(t, Rat(2, 3))
      THEN RAdd(p, RMul(RMul(RSub(q, p), RSub(Rat(2, 3), t)), RInt(6)))
    ELSE p

\* hue2rgb
Hue2Rgb(p, q, t0) ==
    LET t1 == IF RLess(t0, RInt(0)) THEN RAdd(t0, RInt(1)) ELSE t0
        t  == IF RLess(RInt(1), t1) THEN RSub(t1, RInt(1)) ELSE t1
    IN  IF RLess(t, Rat(1, 6)) THEN RAdd(p, RMul(RMul(RSub(q, p), RInt(6)), t))
        ELSE IF RLess(t, Rat(1, 2)) THEN q
        ELSE IF RLess(t, Rat(2, 3))
          THEN RAdd(p, RMul(RMul(RSub(q, p), RSub(Rat(2, 3), t)), RInt(6)))
        ELSE p

\* HSL -> RGB of sortRow, before the floor; the result is <<newR, newG, newB>>
HslToRgb(h, s, l) ==
    IF s = RInt(0) THEN <<l, l, l>>
    ELSE LET q == IF RLess(l, Rat(1, 2)) THEN RMul(l, RAdd(RInt(1), s))
                  ELSE RSub(RAdd(l, s), RMul(l, s))
             p == RSub(RMul(RInt(2), l), q)
         IN  <<Hue2Rgb(p, q, RAdd(h, Rat(1, 3))),
               Hue2Rgb(p, q, h),
               Hue2Rgb(p, q, RSub(h, Rat(1, 3)))>>

\* hueShift of the slot px - startX = idx of a run of runLen pixels
HueShift(idx, runLen, sortLength, timeMs) ==
    LET positionInSort == Rat(idx, runLen)
        sortIntensity  == Rat(runLen, sortLength)
    IN  RMod1(RAdd(RMul(RMul(positionInSort, sortIntensity), Rat(1, 2)),
                   RMul(Rat(timeMs, 1000), Rat(1, 5))))

\* ShiftedSaturation without Math.min
ShiftedSaturationUnclamped(s) == RAdd(s, Rat(1, 2))

\* s = Math.min(1, s + 0.5)
ShiftedSaturation(s) == RMin(RInt(1), RAdd(s, Rat(1, 2)))

\* h, s, l as the conversion back to RGB receives them, for the slot idx
\* that holds the sorted pixel
OutputHsl(pixel, idx, runLen, sortLength, timeMs) ==
    LET hsl == RgbToHsl(pixel)
    IN  <<RMod1(RAdd(hsl[1], HueShift(idx, runLen, sortLength, timeMs))),
          ShiftedSaturation(hsl[2]),
          hsl[3]>>

\* OutputAlpha that makes the pixel opaque
OutputAlphaOpaque(pixel) == 255

\* data[i + 3] = pixel.a
OutputAlpha(pixel) == pixel[4]

\* the four bytes written for a slot that holds the sorted pixel, from
\* the h, s, l of the slot; the numbers are exact
Recolor(pixel, hsl) ==
    LET rgb == HslToRgb(hsl[1], hsl[2], hsl[3])
    IN  <<ToUint8Clamped(RFloor(RMul(rgb[1], RInt(255)))),
          ToUint8Clamped(RFloor(RMul(rgb[2], RInt(255)))),
          ToUint8Clamped(RFloor(RMul(rgb[3], RInt(255)))),
          OutputAlpha(pixel)>>

(***************************************************************************)
(* The frames the scene renders.  A frame is a row-major sequence of       *)
(* pixels; the pixel of column x0, row y0 (both from 0) of a frame that is *)
(* w pixels wide sits at index y0 * w + x0 + 1.                            *)
(***************************************************************************)
Dim    == <<10, 10, 10, 255>>
MidA   == <<150, 150, 150, 11>>
MidB   == <<200, 150, 100, 255>>
Bright == <<250, 200, 240, 255>>
Ghost  == <<255, 255, 255, 10>>
Palette == <<Bright, Dim, MidB, MidA, Ghost>>

\* the rendered views the scene canvas can hold: a view is the sequence of
\* pixels its texture repeats
NumScenes == 1
Rotate(seq, k) == [i \in 1 .. Len(seq) |-> seq[((i - 1 + k) % Len(seq)) + 1]]
Scenes == {Rotate(Palette, k) : k \in 0 .. NumScenes - 1}
NoScene == <<>>
ScenePixel(s, x0, y0) == s[((x0 + 2 * y0) % Len(s)) + 1]

\* drawImage(canvas, 0, 0, w, h) followed by getImageData(0, 0, w, h)
DrawImage(s, w, h) ==
    [i \in 1 .. w * h |-> ScenePixel(s, (i - 1) % w, (i - 1) \div w)]

(***************************************************************************)
(* State.                                                                  *)
(***************************************************************************)
VARIABLES
    innerWidth, innerHeight,  \* window.innerWidth, window.innerHeight
    now,                      \* Date.now(), milliseconds
    webglDisplay,             \* sceneEl.canvas.style.display
    psData,                   \* pixel-sorter this.data
    sorterCanvas,             \* [display, width, height, image]
    asData,                   \* ascii-shader this.data
    asciiCanvas,              \* [display, width, height, image]
    sampleCanvas,             \* [width, height]
    cols, rows,               \* ascii-shader this.cols, this.rows
    asciiEnabled,             \* the click handler's asciiEnabled
    pc,                       \* where the render loop stands
    scene,                    \* the view the scene canvas holds this frame
    data, width, height,      \* locals of pixel-sorter.tick
    y, x,                     \* the row tick is at, and sortRow's x
    inData,                   \* history: data as getImageData returned it
    runs,                     \* history: the runs sortRow has processed
    applied,                  \* history: the effects whose tick body ran this frame
    thrown,                   \* history: the exception a tick has thrown this frame
    inputs,                   \* history: how many times the user has acted
    isOpen,                   \* game-console this.isOpen
    consoleHistory,           \* game-console this.consoleHistory
    historyIndex,             \* game-console this.historyIndex
    inputValue,               \* this.input.value, a sequence of characters
    isPaused,                 \* fps-controller this.isPaused
    keys,                     \* fps-controller this.keys
    isCrouching,              \* fps-controller this.isCrouching
    noclip,                   \* fps-controller this.noclip
    hasLanded,                \* fps-controller this.hasLanded
    listenerOrder,            \* whose keydown listener the window calls first
    positionY,                \* the player's position.y: "above" 62 or not
    loadedModels,             \* the page script's loadedModels
    sceneLoaded,              \* the page script's sceneLoaded
    playerLanded,             \* the page script's playerLanded
    loadingClass,             \* loadingScreen.classList
    loadingDisplay,           \* loadingScreen.style.display
    timers,                   \* pending timeouts: how many of each callback
    fired,                    \* history: how often each scene event was emitted
    keysAtOpen                \* history: the keys registered when the open console was opened

vars == <<innerWidth, innerHeight, now, webglDisplay, psData, sorterCanvas,
          asData, asciiCanvas, sampleCanvas, cols, rows, asciiEnabled,
          pc, scene, data, width, height, y, x, inData, runs, applied,
          thrown, inputs, isOpen, consoleHistory, historyIndex, inputValue,
          isPaused, keys, isCrouching, noclip, hasLanded, listenerOrder,
          positionY, loadedModels, sceneLoaded, playerLanded, loadingClass,
          loadingDisplay, timers, fired, keysAtOpen>>

envVars   == <<innerWidth, innerHeight, now>>
psVars    == <<psData, sorterCanvas>>
asVars    == <<asData, asciiCanvas, sampleCanvas, cols, rows, asciiEnabled>>
tickVars  == <<scene, data, width, height, y, x, inData, runs>>
histVars  == <<applied, thrown, inputs>>
consoleVars == <<isOpen, consoleHistory, historyIndex, inputValue>>
ctrlVars  == <<isPaused, keys, isCrouching, noclip, hasLanded, listenerOrder,
               positionY, keysAtOpen>>
loadVars  == <<loadedModels, sceneLoaded, playerLanded, loadingClass,
               loadingDisplay, timers, fired>>
pageVars  == <<consoleVars, ctrlVars, loadVars>>
effectVars == <<envVars, webglDisplay, psVars, asVars, pc, tickVars, histVars>>

\* the value of a positive number divided by 0
Infinity == 1000 * 1000 * 1000

\* this.cols and this.rows before setupAsciiCanvas has run
Undefined == 0 - Infinity - 1

\* no exception
NoError == ""

\* schema defaults
DefaultThreshold == 30
DefaultSortLength == 80
DefaultCharacters == <<" ", ".", ":", "-", "=", "+", "*", "#", "%", "@">>

\* a canvas element as created: 300 x 150, transparent
CanvasDefaultWidth == 300
CanvasDefaultHeight == 150

(***************************************************************************)
(* pixel-sorter.sortRow                                                    *)
(***************************************************************************)
\* what a read past the end of the buffer yields: undefined, of which
\* a > 10 does not hold
OutOfRange == <<0, 0, 0, 0>>

\* data[i] .. data[i + 3] for i = (y * width + x) * 4.  A buffer of whole
\* rows is read past its end only by the scan for the start of a run.
PixelAt(d, w, y0, x0) ==
    IF y0 * w + x0 + 1 \in DOMAIN d THEN d[y0 * w + x0 + 1] ELSE OutOfRange

\* a > 10
Opaque(p) == p[4] > 10

\* BrighterThan with the threshold clamped to [0, 1]
BrighterThanClamped(p, t) ==
    100 * Sum3(p) > 765 * (IF t < 0 THEN 0 ELSE IF t > 100 THEN 100 ELSE t)

\* brightness > threshold, with threshold = this.data.threshold * 255:
\* (r + g + b) / 3 > (t / 100) * 255
BrighterThan(p, t) == 100 * Sum3(p) > 765 * t

\* the first scan stops at a pixel that has a > 10 and brightness > threshold
StartsRun(p, t) == Opaque(p) /\ BrighterThan(p, t)

\* the second scan stops at a pixel that has a <= 10 or brightness <= threshold
EndsRun(p, t) == p[4] <= 10 \/ ~BrighterThan(p, t)

RECURSIVE FindStart(_, _, _, _, _)
FindStart(d, w, y0, t, startX) ==
    IF startX < w
    THEN IF StartsRun(PixelAt(d, w, y0, startX), t) THEN startX
         ELSE FindStart(d, w, y0, t, startX + 1)
    ELSE startX

\* FindEnd without the sortLength cap
RECURSIVE FindEndUncapped(_, _, _, _, _, _, _)
FindEndUncapped(d, w, y0, t, sortLength, startX, endX) ==
    IF endX < w
    THEN IF EndsRun(PixelAt(d, w, y0, endX), t) THEN endX
         ELSE FindEndUncapped(d, w, y0, t, sortLength, startX, endX + 1)
    ELSE endX

\* FindEnd whose cap lets a run grow to sortLength + 1 pixels
RECURSIVE FindEndInclusive(_, _, _, _, _, _, _)
FindEndInclusive(d, w, y0, t, sortLength, startX, endX) ==
    IF endX < w /\ endX - startX <= sortLength
    THEN IF EndsRun(PixelAt(d, w, y0, endX), t) THEN endX
         ELSE FindEndInclusive(d, w, y0, t, sortLength, startX, endX + 1)
    ELSE endX

RECURSIVE FindEnd(_, _, _, _, _, _, _)
FindEnd(d, w, y0, t, sortLength, startX, endX) ==
    IF endX < w /\ endX - startX < sortLength
    THEN IF EndsRun(PixelAt(d, w, y0, endX), t) THEN endX
         ELSE FindEnd(d, w, y0, t, sortLength, startX, endX + 1)
    ELSE endX

\* RunPixels with the row offset y * width left out
RunPixelsRow0(d, w, y0, startX, endX) ==
    [k \in 1 .. endX - startX |-> PixelAt(d, w, 0, startX + k - 1)]

\* pixels.push(...) for px = startX .. endX - 1
RunPixels(d, w, y0, startX, endX) ==
    [k \in 1 .. endX - startX |-> PixelAt(d, w, y0, startX + k - 1)]

\* BrightnessBefore with <= for <
BrightnessBeforeOrEqual(p, q) == Sum3(p) <= Sum3(q)

\* the comparator (a, b) => a.brightness - b.brightness is negative
BrightnessBefore(p, q) == Sum3(p) < Sum3(q)

\* Array.prototype.sort is stable: an element goes behind every element
\* the comparator does not put after it
RECURSIVE InsertSorted(_, _)
InsertSorted(sorted, p) ==
    IF sorted = <<>> THEN <<p>>
    ELSE IF BrightnessBefore(p, sorted[Len(sorted)])
         THEN Append(InsertSorted(SubSeq(sorted, 1, Len(sorted) - 1), p),
                     sorted[Len(sorted)])
         ELSE Append(sorted, p)

RECURSIVE SortPixels(_)
SortPixels(pixels) ==
    IF pixels = <<>> THEN <<>>
    ELSE InsertSorted(SortPixels(SubSeq(pixels, 1, Len(pixels) - 1)),
                      pixels[Len(pixels)])

\* WriteRun that writes the run's columns in every row of the buffer
WriteRunAllRows(d, w, y0, startX, endX, sorted, hsl) ==
    [i \in 1 .. Len(d) |->
        LET px == (i - 1) % w
        IN  IF px >= startX /\ px < endX
            THEN Recolor(sorted[px - startX + 1], hsl[px - startX + 1])
            ELSE d[i]]

\* the write-back loop over px = startX .. endX - 1
WriteRun(d, w, y0, startX, endX, sorted, hsl) ==
    [i \in 1 .. Len(d) |->
        LET px == (i - 1) - y0 * w
        IN  IF px >= startX /\ px < endX
            THEN Recolor(sorted[px - startX + 1], hsl[px - startX + 1])
            ELSE d[i]]

\* NextX that resumes one pixel behind the run
NextXSkip(startX, endX) == endX + 1

\* NextX that resumes at the start of the run it has just written
NextXStay(startX, endX) == startX

\* x = endX
NextX(startX, endX) == endX

\* One pass of the outer while loop of sortRow.
SortRowStep ==
    /\ UNCHANGED pageVars
    /\ pc = "sortRow"
    /\ LET t      == psData.threshold
           len    == psData.sortLength
           startX == FindStart(data, width, y, t, x)
           endX   == FindEnd(data, width, y, t, len, startX, startX)
           pixels == RunPixels(data, width, y, startX, endX)
           sorted == SortPixels(pixels)
           time   == now   \* const time = Date.now() * 0.001
           hsl    == [k \in 1 .. endX - startX |->
                         OutputHsl(sorted[k], k - 1, endX - startX, len, time)]
       IN  IF x >= width \/ startX >= width
           THEN /\ pc' = "rowDone"
                /\ UNCHANGED <<data, x, runs>>
           ELSE /\ pc' = pc
                /\ x' = NextX(startX, endX)
                /\ IF endX > startX
                   THEN /\ data' = WriteRun(data, width, y, startX, endX, sorted,
                                            hsl)
                        /\ runs' = Append(runs,
                               [y |-> y, startX |-> startX, endX |-> endX,
                                time |-> time, pixels |-> pixels,
                                sorted |-> sorted, hsl |-> hsl])
                   ELSE UNCHANGED <<data, runs>>
    /\ UNCHANGED <<envVars, webglDisplay, psVars, asVars, scene, width, height,
                   y, inData, histVars>>

(***************************************************************************)
(* pixel-sorter.update and pixel-sorter.tick                               *)
(***************************************************************************)
\* a canvas whose width or height has just been set holds nothing
Blank == <<>>

\* what update leaves in sorterCanvas, given the new this.data
PsUpdateCanvas(d, canvas, w, h) ==
    IF d.enabled
    THEN [display |-> "block", width |-> w, height |-> h, image |-> Blank]
    ELSE [canvas EXCEPT !.display = "none"]

\* PsUpdateWebgl that never shows the scene canvas again
PsUpdateWebglHidden(d) == "none"

\* what update leaves in webglCanvas.style.display
PsUpdateWebgl(d) == IF d.enabled THEN "none" ELSE "block"

\* if (!this.data.enabled) return
PsTickRuns(d) == d.enabled

\* tick up to its first call of sortRow
PsTick ==
    /\ UNCHANGED pageVars
    /\ pc = "psTick"
    /\ IF ~PsTickRuns(psData)
       THEN /\ pc' = "asTick"
            /\ UNCHANGED <<sorterCanvas, tickVars, applied, thrown>>
       ELSE LET w == sorterCanvas.width
                h == sorterCanvas.height
                d == DrawImage(scene, w, h)
            IN  /\ width' = w
                /\ height' = h
                /\ sorterCanvas' = [sorterCanvas EXCEPT !.image = d]
                /\ data' = d
                /\ inData' = d
                /\ runs' = <<>>
                /\ y' = 0
                /\ x' = 0
                /\ applied' = applied \cup {"pixel-sorter"}
                /\ pc' = IF 0 < h THEN "sortRow" ELSE "putImageData"
                /\ UNCHANGED <<scene, thrown>>
    /\ UNCHANGED <<envVars, webglDisplay, psData, asVars, inputs>>

\* sortRow has returned: y++, and the next call of sortRow
PsTickNextRow ==
    /\ UNCHANGED pageVars
    /\ pc = "rowDone"
    /\ y' = y + 1
    /\ x' = 0
    /\ pc' = IF y + 1 < height THEN "sortRow" ELSE "putImageData"
    /\ UNCHANGED <<envVars, webglDisplay, psVars, asVars, scene, data, width,
                   height, inData, runs, histVars>>

\* PsTickPut that also switches the effect off once the frame is written
PsTickPutDisables ==
    /\ UNCHANGED pageVars
    /\ pc = "putImageData"
    /\ sorterCanvas' = [sorterCanvas EXCEPT !.image = data]
    /\ psData' = [psData EXCEPT !.enabled = FALSE]
    /\ pc' = "asTick"
    /\ UNCHANGED <<envVars, webglDisplay, asVars, tickVars, histVars>>

\* this.sorterCtx.putImageData(imageData, 0, 0), and tick returns
PsTickPut ==
    /\ UNCHANGED pageVars
    /\ pc = "putImageData"
    /\ sorterCanvas' = [sorterCanvas EXCEPT !.image = data]
    /\ pc' = "asTick"
    /\ UNCHANGED <<envVars, webglDisplay, psData, asVars, tickVars, histVars>>

(***************************************************************************)
(* ascii-shader                                                            *)
(***************************************************************************)
\* GridCols with cells as wide as they are tall
GridColsSquare(w, fontSize) == w \div fontSize

\* Math.floor(window.innerWidth / (fontSize * 0.6)), the window's width
\* positive
GridCols(w, fontSize) ==
    IF fontSize > 0 THEN (10 * w) \div (6 * fontSize)
    ELSE IF fontSize < 0 THEN (0 - 10 * w) \div (6 * (0 - fontSize))
    ELSE Infinity

\* Math.floor(window.innerHeight / fontSize), the window's height positive
GridRows(h, fontSize) ==
    IF fontSize > 0 THEN h \div fontSize
    ELSE IF fontSize < 0 THEN (0 - h) \div (0 - fontSize)
    ELSE Infinity

\* the size a canvas takes when its width or height is assigned v: the
\* attribute is an unsigned long, Infinity converts to 0 and a negative
\* value leaves the attribute's default
CanvasSize(v, default) ==
    IF v = Infinity THEN 0 ELSE IF v < 0 THEN default ELSE v

\* the width or height getImageData takes from v: a long, Infinity and
\* undefined convert to 0, a negative value gives a rectangle of size -v
ImageSize(v) ==
    IF v = Infinity \/ v = Undefined THEN 0 ELSE IF v < 0 THEN 0 - v ELSE v

\* setupAsciiCanvas: <<asciiCanvas, sampleCanvas, cols, rows>>
SetupAsciiCanvas(canvas, w, h, fontSize) ==
    LET c == GridCols(w, fontSize)
        r == GridRows(h, fontSize)
    IN  <<[canvas EXCEPT !.width = w, !.height = h, !.image = Blank],
          [width |-> CanvasSize(c, CanvasDefaultWidth),
           height |-> CanvasSize(r, CanvasDefaultHeight)], c, r>>

\* update: <<asciiCanvas, sampleCanvas, cols, rows>>
AsUpdate(d, canvas, sample, c, r, w, h) ==
    IF d.enabled
    THEN SetupAsciiCanvas([canvas EXCEPT !.display = "block"], w, h, d.fontSize)
    ELSE <<[canvas EXCEPT !.display = "none"], sample, c, r>>

AsUpdateWebgl(d) == IF d.enabled THEN "none" ELSE "block"

\* CharIndex that scales by chars.length
CharIndexLen(p, chars) == (Sum3(p) * Len(chars)) \div 765

\* Math.floor((brightness / 255) * (chars.length - 1)), the numbers exact
CharIndex(p, chars) == (Sum3(p) * (Len(chars) - 1)) \div 765

\* the values the expression can take in double arithmetic: brightness / 255
\* is rounded unless brightness is 0 or 255, so a product whose exact value
\* is an integer can come out just below that integer
CharIndices(p, chars) ==
    IF /\ Sum3(p) > 0
       /\ Sum3(p) < 765
       /\ Len(chars) > 1
       /\ (Sum3(p) * (Len(chars) - 1)) % 765 = 0
    THEN {CharIndex(p, chars) - 1, CharIndex(p, chars)}
    ELSE {CharIndex(p, chars)}

\* the charIndex of each of the first n cells; equal brightness gives equal
\* charIndex
RECURSIVE CharIndexSeqs(_, _, _)
CharIndexSeqs(img, n, chars) ==
    IF n = 0 THEN {<<>>}
    ELSE {Append(s, i) : s \in CharIndexSeqs(img, n - 1, chars),
                         i \in CharIndices(img[n], chars)}

CharIndexChoices(img, n, chars) ==
    {s \in CharIndexSeqs(img, n, chars) :
        \A j, k \in 1 .. n : Sum3(img[j]) = Sum3(img[k]) => s[j] = s[k]}

\* chars[charIndex]
CharAt(chars, i) == IF i >= 0 /\ i < Len(chars) THEN chars[i + 1] ELSE "undefined"

\* Math.floor(c * 0.7 + avgColor * 0.3)
Tint(p, c) == (7 * c + Sum3(p)) \div 10
\* Math.floor(tint * 0.4)
DimTint(t) == (4 * t) \div 10

\* CellDraws that draws the tinted glyph first and the shadow over it
CellDrawsTintFirst(p, charIndex, x0, y0, fontSize, chars) ==
    LET char == CharAt(chars, charIndex)
        tint == <<Tint(p, p[1]), Tint(p, p[2]), Tint(p, p[3])>>
        tx   == Rat(6 * x0 * fontSize, 10)
        ty   == RInt(y0 * fontSize + fontSize)
    IN  IF p[4] > 10
        THEN << [op |-> "fillText", text |-> char, x |-> tx, y |-> ty,
                 fillStyle |-> tint],
                [op |-> "fillText", text |-> char, x |-> RAdd(tx, RInt(1)),
                 y |-> RAdd(ty, RInt(1)), fillStyle |-> <<0, 0, 0>>] >>
        ELSE << [op |-> "fillText", text |-> char, x |-> tx, y |-> ty,
                 fillStyle |-> <<DimTint(tint[1]), DimTint(tint[2]),
                                 DimTint(tint[3])>>] >>

\* the fillText calls of the cell of column x0, row y0
CellDraws(p, charIndex, x0, y0, fontSize, chars) ==
    LET char == CharAt(chars, charIndex)
        tint == <<Tint(p, p[1]), Tint(p, p[2]), Tint(p, p[3])>>
        tx   == Rat(6 * x0 * fontSize, 10)
        ty   == RInt(y0 * fontSize + fontSize)
    IN  IF p[4] > 10
        THEN << [op |-> "fillText", text |-> char, x |-> RAdd(tx, RInt(1)),
                 y |-> RAdd(ty, RInt(1)), fillStyle |-> <<0, 0, 0>>],
                [op |-> "fillText", text |-> char, x |-> tx, y |-> ty,
                 fillStyle |-> tint] >>
        ELSE << [op |-> "fillText", text |-> char, x |-> tx, y |-> ty,
                 fillStyle |-> <<DimTint(tint[1]), DimTint(tint[2]),
                                 DimTint(tint[3])>>] >>

\* the two loops, y outside and x inside, over the first n cells
RECURSIVE GridDraws(_, _, _, _, _, _)
GridDraws(img, idx, c, n, fontSize, chars) ==
    IF n = 0 THEN <<>>
    ELSE GridDraws(img, idx, c, n - 1, fontSize, chars)
         \o CellDraws(img[n], idx[n], (n - 1) % c, (n - 1) \div c, fontSize,
                      chars)

\* fillRect(0, 0, width, height) in #0a0a1a
ClearDraw(canvas) ==
    [op |-> "fillRect", text |-> "", x |-> RInt(canvas.width),
     y |-> RInt(canvas.height), fillStyle |-> <<10, 10, 26>>]

\* AsTickGrid that sizes the grid from the window on every tick
AsTickGridRecompute(sample, c, r, w, h, fontSize) ==
    <<[width |-> GridCols(w, fontSize), height |-> GridRows(h, fontSize)],
      GridCols(w, fontSize), GridRows(h, fontSize)>>

\* the grid tick leaves cached: <<sampleCanvas, cols, rows>>
AsTickGrid(sample, c, r, w, h, fontSize) == <<sample, c, r>>

\* AsTickRuns without the enabled guard
AsTickAlways(d) == TRUE

\* if (!this.data.enabled) return
AsTickRuns(d) == d.enabled

\* the cells the two loops visit: none unless rows and cols are positive
GridCells(c, r) ==
    IF c > 0 /\ r > 0 /\ c < Infinity /\ r < Infinity THEN c * r ELSE 0

\* tick; getImageData throws IndexSizeError when the rectangle it is asked
\* for has width or height 0, and the tick ends there
AsTick ==
    /\ UNCHANGED pageVars
    /\ pc = "asTick"
    /\ pc' = "frameEnd"
    /\ IF ~AsTickRuns(asData)
       THEN UNCHANGED <<asciiCanvas, sampleCanvas, cols, rows, applied, thrown>>
       ELSE LET g == AsTickGrid(sampleCanvas, cols, rows, innerWidth,
                                innerHeight, asData.fontSize)
            IN  /\ sampleCanvas' = g[1]
                /\ cols' = g[2]
                /\ rows' = g[3]
                /\ applied' = applied \cup {"ascii-shader"}
                /\ IF ImageSize(cols) = 0 \/ ImageSize(rows) = 0
                   THEN /\ thrown' = "IndexSizeError"
                        /\ UNCHANGED asciiCanvas
                   ELSE LET n == GridCells(cols, rows)
                            img == DrawImage(scene, ImageSize(cols),
                                             ImageSize(rows))
                        IN  /\ thrown' = thrown
                            /\ \E idx \in CharIndexChoices(img, n,
                                                   asData.characters) :
                                  asciiCanvas' = [asciiCanvas EXCEPT !.image =
                                      <<ClearDraw(asciiCanvas)>>
                                      \o GridDraws(img, idx, cols, n,
                                                   asData.fontSize,
                                                   asData.characters)]
    /\ UNCHANGED <<envVars, webglDisplay, psVars, asData, asciiEnabled,
                   tickVars, inputs>>

(***************************************************************************)
(* The render loop: each frame calls the tick of both components.          *)
(***************************************************************************)
FrameBegin ==
    /\ UNCHANGED pageVars
    /\ pc = "idle"
    /\ pc' = "psTick"
    /\ scene' \in Scenes
    /\ UNCHANGED <<envVars, webglDisplay, psVars, asVars, data, width, height,
                   y, x, inData, runs, histVars>>

FrameEnd ==
    /\ UNCHANGED pageVars
    /\ pc = "frameEnd"
    /\ pc' = "idle"
    /\ applied' = {}
    /\ thrown' = NoError
    /\ data' = <<>>
    /\ inData' = <<>>
    /\ runs' = <<>>
    /\ width' = 0
    /\ height' = 0
    /\ y' = 0
    /\ x' = 0
    /\ scene' = NoScene
    /\ UNCHANGED <<envVars, webglDisplay, psVars, asVars, inputs>>

(***************************************************************************)
(* The Parameter Source: the slider and the ASCII button.  setAttribute    *)
(* calls the component's update when the component's data has changed.     *)
(***************************************************************************)
SliderValues == {0, 41, 70}

\* the data setAttribute leaves for the slider's value
SliderData(d, value) ==
    IF value = 0 THEN [d EXCEPT !.enabled = FALSE]
    ELSE [d EXCEPT !.enabled = TRUE, !.threshold = 100 - value]

SliderInput(value) ==
    /\ UNCHANGED pageVars
    /\ pc = "idle"
    /\ inputs < MaxInputs
    /\ inputs' = inputs + 1
    /\ psData' = SliderData(psData, value)
    /\ IF psData' # psData
       THEN /\ sorterCanvas' = PsUpdateCanvas(psData', sorterCanvas, innerWidth,
                                              innerHeight)
            /\ webglDisplay' = PsUpdateWebgl(psData')
       ELSE UNCHANGED <<sorterCanvas, webglDisplay>>
    /\ UNCHANGED <<envVars, asVars, pc, tickVars, applied, thrown>>

AsciiClick ==
    /\ UNCHANGED pageVars
    /\ pc = "idle"
    /\ inputs < MaxInputs
    /\ inputs' = inputs + 1
    /\ asciiEnabled' = ~asciiEnabled
    /\ asData' = [asData EXCEPT !.enabled = asciiEnabled']
    /\ IF asData' # asData
       THEN /\ LET u == AsUpdate(asData', asciiCanvas, sampleCanvas, cols, rows,
                                 innerWidth, innerHeight)
               IN  /\ asciiCanvas' = u[1]
                   /\ sampleCanvas' = u[2]
                   /\ cols' = u[3]
                   /\ rows' = u[4]
            /\ webglDisplay' = AsUpdateWebgl(asData')
       ELSE UNCHANGED <<asciiCanvas, sampleCanvas, cols, rows, webglDisplay>>
    /\ UNCHANGED <<envVars, psVars, pc, tickVars, applied, thrown>>

(***************************************************************************)
(* The environment: the window is resized, the clock advances.  Neither    *)
(* component listens for the window's resize event.  The window's size     *)
(* changes between frames, or inside a frame ahead of either tick; the     *)
(* clock advances at any point, also between two passes of sortRow.        *)
(***************************************************************************)
ViewportWidths == MaxWidth - 1 .. MaxWidth
ViewportHeights == MaxHeight - 1 .. MaxHeight

Resize(w, h) ==
    /\ UNCHANGED pageVars
    /\ pc \in {"idle", "psTick", "asTick"}
    /\ <<w, h>> # <<innerWidth, innerHeight>>
    /\ inputs < MaxInputs
    /\ inputs' = inputs + 1
    /\ innerWidth' = w
    /\ innerHeight' = h
    /\ UNCHANGED <<now, webglDisplay, psVars, asVars, pc, tickVars, applied,
                   thrown>>

ClockAdvance ==
    /\ UNCHANGED pageVars
    /\ now < MaxClockSteps * ClockStep
    /\ now' = now + ClockStep
    /\ UNCHANGED <<innerWidth, innerHeight, webglDisplay, psVars, asVars, pc,
                   tickVars, histVars>>

(***************************************************************************)
(* The keyboard: fps-controller and game-console both listen for keydown   *)
(* on the window, game-console also on its input element.  A handler is an *)
(* operator on the record of what the two components and the input hold.   *)
(***************************************************************************)
MaxInputLen == 2
MaxHistory == 2

\* this.keys = {}
NoKeys == [c \in {} |-> TRUE]

\* this.keys[code] = v
SetKey(ks, code, v) ==
    [c \in DOMAIN ks \cup {code} |-> IF c = code THEN v ELSE ks[c]]

\* event.key of the key whose event.code is code; "backtick" stands for
\* the grave accent character
KeyOf(code) ==
    CASE code = "Backquote" -> "backtick"
      [] code = "KeyC" -> "c"
      [] code = "KeyW" -> "w"
      [] code = "Space" -> " "
      [] OTHER -> code

\* the keys that put a character into a focused text input
Printable(code) == code \in {"Backquote", "KeyC", "KeyW", "Space"}

\* String.prototype.trim on a sequence of characters
RECURSIVE TrimStart(_)
TrimStart(v) ==
    IF v # <<>> /\ v[1] = " " THEN TrimStart(Tail(v)) ELSE v

RECURSIVE TrimEnd(_)
TrimEnd(v) ==
    IF v # <<>> /\ v[Len(v)] = " " THEN TrimEnd(SubSeq(v, 1, Len(v) - 1))
    ELSE v

Trim(v) == TrimEnd(TrimStart(v))

\* command.split(" ")[0]
RECURSIVE FirstPart(_)
FirstPart(command) ==
    IF command = <<>> \/ command[1] = " " THEN <<>>
    ELSE <<command[1]>> \o FirstPart(Tail(command))

\* what the handlers of one event work on; prevented is the event's
\* defaultPrevented
Page ==
    [isOpen |-> isOpen, consoleHistory |-> consoleHistory,
     historyIndex |-> historyIndex, inputValue |-> inputValue,
     isPaused |-> isPaused, keys |-> keys, isCrouching |-> isCrouching,
     noclip |-> noclip, prevented |-> FALSE]

PageBecomes(p) ==
    /\ isOpen' = p.isOpen
    /\ consoleHistory' = p.consoleHistory
    /\ historyIndex' = p.historyIndex
    /\ inputValue' = p.inputValue
    /\ isPaused' = p.isPaused
    /\ keys' = p.keys
    /\ isCrouching' = p.isCrouching
    /\ noclip' = p.noclip

\* Pause that leaves this.keys as it is
PauseKeepsKeys(p) == [p EXCEPT !.isPaused = TRUE]

\* fps-controller.pause
Pause(p) == [p EXCEPT !.isPaused = TRUE, !.keys = NoKeys]

\* fps-controller.play
Play(p) == [p EXCEPT !.isPaused = FALSE]

\* fps-controller.onKeyDown; a jump changes the body's velocity only
CtrlKeyDown(p, code) ==
    IF p.isPaused THEN p
    ELSE [p EXCEPT !.keys = SetKey(@, code, TRUE),
                   !.isCrouching = IF code = "KeyC" THEN ~@ ELSE @]

\* fps-controller.onKeyUp
CtrlKeyUp(p, code) ==
    IF p.isPaused THEN p
    ELSE [p EXCEPT !.keys = SetKey(@, code, FALSE)]

\* game-console.toggle
Toggle(p) ==
    IF ~p.isOpen THEN Pause([p EXCEPT !.isOpen = TRUE])
    ELSE Play([p EXCEPT !.isOpen = FALSE])

\* game-console.executeCommand: of what the model holds, noclip alone
ExecuteCommand(p, command) ==
    IF FirstPart(command) = <<"n", "o", "c", "l", "i", "p">>
    THEN [p EXCEPT !.noclip = ~@]
    ELSE p

\* OnSubmit that stores the input as typed, untrimmed
OnSubmitUntrimmed(p, code) ==
    IF KeyOf(code) = "Enter" /\ p.isOpen
    THEN LET command == Trim(p.inputValue)
         IN  [(IF command # <<>>
               THEN [ExecuteCommand(p, command) EXCEPT
                        !.consoleHistory = Append(@, p.inputValue),
                        !.historyIndex = 0 - 1]
               ELSE p) EXCEPT !.inputValue = <<>>]
    ELSE p

\* game-console.onSubmit, the input's keydown listener
OnSubmit(p, code) ==
    IF KeyOf(code) = "Enter" /\ p.isOpen
    THEN LET command == Trim(p.inputValue)
         IN  [(IF command # <<>>
               THEN [ExecuteCommand(p, command) EXCEPT
                        !.consoleHistory = Append(@, command),
                        !.historyIndex = 0 - 1]
               ELSE p) EXCEPT !.inputValue = <<>>]
    ELSE p

\* this.consoleHistory[this.consoleHistory.length - 1 - index]
HistoryAt(history, index) == history[Len(history) - index]

\* game-console.onKeyDown, the console's keydown listener on the window
ConsoleKeyDown(p, code) ==
    IF KeyOf(code) = "backtick" THEN Toggle([p EXCEPT !.prevented = TRUE])
    ELSE IF ~p.isOpen THEN p
    ELSE IF KeyOf(code) = "ArrowUp"
         THEN IF p.historyIndex < Len(p.consoleHistory) - 1
              THEN [p EXCEPT !.prevented = TRUE,
                             !.historyIndex = @ + 1,
                             !.inputValue = HistoryAt(p.consoleHistory,
                                                      p.historyIndex + 1)]
              ELSE [p EXCEPT !.prevented = TRUE]
    ELSE IF KeyOf(code) = "ArrowDown"
         THEN IF p.historyIndex > 0
              THEN [p EXCEPT !.prevented = TRUE,
                             !.historyIndex = @ - 1,
                             !.inputValue = HistoryAt(p.consoleHistory,
                                                      p.historyIndex - 1)]
              ELSE IF p.historyIndex = 0
                   THEN [p EXCEPT !.prevented = TRUE,
                                  !.historyIndex = 0 - 1,
                                  !.inputValue = <<>>]
                   ELSE [p EXCEPT !.prevented = TRUE]
    ELSE p

\* the two keydown listeners of the window, in the order they were added
WindowKeyDown(p, code, first) ==
    IF first = "fps-controller"
    THEN ConsoleKeyDown(CtrlKeyDown(p, code), code)
    ELSE CtrlKeyDown(ConsoleKeyDown(p, code), code)

\* the browser's own action: the focused input takes the character
DefaultAction(p, code, focused) ==
    IF focused /\ Printable(code) /\ ~p.prevented
    THEN [p EXCEPT !.inputValue = Append(@, KeyOf(code))]
    ELSE p

\* what a keydown of the key code leaves: the input's listener if the
\* input has the focus, the window's listeners, the browser's own action
AfterKeyDown(code) ==
    DefaultAction(WindowKeyDown(IF isOpen THEN OnSubmit(Page, code) ELSE Page,
                                code, listenerOrder),
                  code, isOpen)

\* the keys registered as pressed
Pressed(ks) == {c \in DOMAIN ks : ks[c]}

\* a key goes down.  The console's input has the focus while the console
\* is open: toggle gives it and takes it.
KeyDown(code) ==
    /\ Len(AfterKeyDown(code).inputValue) <= MaxInputLen
    /\ Len(AfterKeyDown(code).consoleHistory) <= MaxHistory
    /\ PageBecomes(AfterKeyDown(code))
    /\ keysAtOpen' = IF AfterKeyDown(code).isOpen
                     THEN IF isOpen THEN keysAtOpen ELSE Pressed(keys)
                     ELSE {}
    /\ UNCHANGED <<effectVars, hasLanded, listenerOrder, positionY, loadVars>>

\* a key goes up: fps-controller alone listens
KeyUp(code) ==
    /\ PageBecomes(CtrlKeyUp(Page, code))
    /\ UNCHANGED <<effectVars, hasLanded, listenerOrder, positionY, loadVars,
                   keysAtOpen>>

ListenerOrders == {"fps-controller", "game-console"}

\* the page as its scripts leave it, the window's keydown listeners added
\* in any of orders
PageInitWith(orders) ==
    /\ isOpen = FALSE
    /\ consoleHistory = <<>>
    /\ historyIndex = 0 - 1
    /\ inputValue = <<>>
    /\ isPaused = FALSE
    /\ keys = NoKeys
    /\ isCrouching = FALSE
    /\ noclip = TRUE
    /\ hasLanded = FALSE
    /\ listenerOrder \in orders
    /\ positionY = "above"
    /\ loadedModels = 0
    /\ sceneLoaded = FALSE
    /\ playerLanded = FALSE
    /\ loadingClass = {}
    /\ loadingDisplay = ""
    /\ timers = [fallback |-> 0, hide |-> 0]
    /\ fired = [loaded |-> 0, landed |-> 0]
    /\ keysAtOpen = {}

PageInit == PageInitWith({"fps-controller"})

(***************************************************************************)
(* The loading screen: the page script's listeners for the scene's events  *)
(* model-loaded, loaded and player-landed, its two timeouts, and the part  *)
(* of fps-controller.tick that emits player-landed.                        *)
(***************************************************************************)
MaxModelLoads == 2

\* checkReadyToHide that does not wait for the scene
CheckReadyToHideLanded(scn, landed, class, tm) ==
    IF landed
    THEN <<class \cup {"loaded"}, [tm EXCEPT !.hide = @ + 1]>>
    ELSE <<class, tm>>

\* checkReadyToHide: the class list and the timeouts it leaves
CheckReadyToHide(scn, landed, class, tm) ==
    IF scn /\ landed
    THEN <<class \cup {"loaded"}, [tm EXCEPT !.hide = @ + 1]>>
    ELSE <<class, tm>>

\* the scene emits model-loaded: loadedModels++, updateProgress
ModelLoaded ==
    /\ loadedModels < MaxModelLoads
    /\ loadedModels' = loadedModels + 1
    /\ UNCHANGED <<effectVars, consoleVars, ctrlVars, sceneLoaded,
                   playerLanded, loadingClass, loadingDisplay, timers, fired>>

\* the scene emits loaded, once: the fallback timeout is set and
\* checkReadyToHide called
SceneLoaded ==
    /\ fired.loaded = 0
    /\ fired' = [fired EXCEPT !.loaded = 1]
    /\ sceneLoaded' = TRUE
    /\ LET r == CheckReadyToHide(TRUE, playerLanded, loadingClass,
                                 [timers EXCEPT !.fallback = @ + 1])
       IN  /\ loadingClass' = r[1]
           /\ timers' = r[2]
    /\ UNCHANGED <<effectVars, consoleVars, ctrlVars, loadedModels,
                   playerLanded, loadingDisplay>>

\* fps-controller.tick: the landing check, which emits player-landed to
\* the page script's listener, and the movement of the frame, which an
\* unpaused controller may take across the landing height
ControllerTick ==
    /\ IF ~hasLanded /\ positionY = "landed"
       THEN /\ hasLanded' = TRUE
            /\ fired' = [fired EXCEPT !.landed = @ + 1]
            /\ playerLanded' = TRUE
            /\ LET r == CheckReadyToHide(sceneLoaded, TRUE, loadingClass,
                                         timers)
               IN  /\ loadingClass' = r[1]
                   /\ timers' = r[2]
       ELSE UNCHANGED <<hasLanded, fired, playerLanded, loadingClass, timers>>
    \* where position.y stands to the landing height 62 after the movement
    /\ IF isPaused THEN positionY' = positionY
                   ELSE positionY' \in {"above", "landed"}
    /\ UNCHANGED <<effectVars, consoleVars, isPaused, keys, isCrouching,
                   noclip, listenerOrder, keysAtOpen, loadedModels,
                   sceneLoaded, loadingDisplay>>

\* the timeout set at loaded expires: playerLanded = true, checkReadyToHide
FallbackTimeout ==
    /\ timers.fallback > 0
    /\ playerLanded' = TRUE
    /\ LET r == CheckReadyToHide(sceneLoaded, TRUE, loadingClass,
                                 [timers EXCEPT !.fallback = @ - 1])
       IN  /\ loadingClass' = r[1]
           /\ timers' = r[2]
    /\ UNCHANGED <<effectVars, consoleVars, ctrlVars, loadedModels,
                   sceneLoaded, loadingDisplay, fired>>

\* a timeout set by checkReadyToHide expires: display = "none"
HideTimeout ==
    /\ timers.hide > 0
    /\ timers' = [timers EXCEPT !.hide = @ - 1]
    /\ loadingDisplay' = "none"
    /\ UNCHANGED <<effectVars, consoleVars, ctrlVars, loadedModels,
                   sceneLoaded, playerLanded, loadingClass, fired>>

(***************************************************************************)
(* The program: both components attached with enabled false.               *)
(***************************************************************************)
FontSizes == {1, 2}

\* both components attached, fontSize any of fontSizes
EffectsInit(fontSizes) ==
    /\ innerWidth \in ViewportWidths
    /\ innerHeight \in ViewportHeights
    /\ now = 0
    /\ webglDisplay = "block"
    /\ psData = [enabled |-> FALSE, threshold |-> DefaultThreshold,
                 sortLength |-> DefaultSortLength]
    /\ sorterCanvas = [display |-> "none", width |-> CanvasDefaultWidth,
                       height |-> CanvasDefaultHeight, image |-> Blank]
    /\ asData \in [enabled : {FALSE}, characters : {DefaultCharacters},
                   fontSize : fontSizes]
    /\ asciiCanvas = [display |-> "none", width |-> CanvasDefaultWidth,
                      height |-> CanvasDefaultHeight, image |-> Blank]
    /\ sampleCanvas = [width |-> CanvasDefaultWidth,
                       height |-> CanvasDefaultHeight]
    /\ cols = Undefined
    /\ rows = Undefined
    /\ asciiEnabled = FALSE
    /\ pc = "idle"
    /\ scene = NoScene
    /\ data = <<>>
    /\ inData = <<>>
    /\ runs = <<>>
    /\ width = 0
    /\ height = 0
    /\ y = 0
    /\ x = 0
    /\ applied = {}
    /\ thrown = NoError
    /\ inputs = 0

\* the effects and the page as their scripts leave them
InitWith(fontSizes) ==
    /\ EffectsInit(fontSizes)
    /\ PageInit

Init == InitWith(FontSizes)

Next ==
    \/ \E value \in SliderValues : SliderInput(value)
    \/ AsciiClick
    \/ \E w \in ViewportWidths, h \in ViewportHeights : Resize(w, h)
    \/ ClockAdvance
    \/ FrameBegin
    \/ PsTick
    \/ SortRowStep
    \/ PsTickNextRow
    \/ PsTickPut
    \/ AsTick
    \/ FrameEnd

Spec == Init /\ [][Next]_vars

(***************************************************************************)
(* The program with a fontSize that is not positive.                       *)
(***************************************************************************)
NoFontSizes == {0, 0 - 1, 0 - 2}

NoFontInit == InitWith(NoFontSizes)

NoFontSpec == NoFontInit /\ [][Next]_vars

(***************************************************************************)
(* sortRow on its own: one call sortRow(data, y, width, height) on a       *)
(* buffer whose row y holds any pixels of the palette, under any           *)
(* threshold of SortThresholds and any sortLength of SortLengths.          *)
(***************************************************************************)
SortThresholds == {30, 59}
SortLengths == (1 .. MaxSortLength) \cup {DefaultSortLength}
RowHeights == {2}

PalettePixels == {Palette[k] : k \in DOMAIN Palette}

\* sortRow(data, y, width, height) entered with row y made of any of
\* pixels and with a buffer that holds extra rows more than height
SortInitWith(pixels, thresholds, sortLengths, extraRows) ==
    /\ width \in 1 .. MaxRowWidth
    /\ height \in RowHeights
    /\ y \in 0 .. height - 1
    /\ \E row \in [1 .. width -> pixels], extra \in extraRows :
          /\ height + extra >= 1
          /\ data = [i \in 1 .. width * (height + extra) |->
                    IF (i - 1) \div width = y THEN row[((i - 1) % width) + 1]
                    ELSE ScenePixel(Palette, (i - 1) % width, (i - 1) \div width)]
    /\ inData = data
    /\ psData \in [enabled : {TRUE}, threshold : thresholds,
                   sortLength : sortLengths]
    /\ sorterCanvas = [display |-> "block", width |-> width, height |-> height,
                       image |-> data]
    /\ webglDisplay = "none"
    /\ innerWidth = width
    /\ innerHeight = height
    /\ now \in {0, ClockStep}
    /\ asData = [enabled |-> FALSE, characters |-> DefaultCharacters,
                 fontSize |-> 1]
    /\ asciiCanvas = [display |-> "none", width |-> CanvasDefaultWidth,
                      height |-> CanvasDefaultHeight, image |-> Blank]
    /\ sampleCanvas = [width |-> CanvasDefaultWidth,
                       height |-> CanvasDefaultHeight]
    /\ cols = Undefined
    /\ rows = Undefined
    /\ asciiEnabled = FALSE
    /\ pc = "sortRow"
    /\ scene = NoScene
    /\ runs = <<>>
    /\ x = 0
    /\ applied = {"pixel-sorter"}
    /\ thrown = NoError
    /\ inputs = 0
    /\ PageInit

SortInit == SortInitWith(PalettePixels, SortThresholds, SortLengths, {0})

SortNext == SortRowStep

SortSpec == SortInit /\ [][SortNext]_vars

(***************************************************************************)
(* sortRow under a threshold outside [0, 1], on rows that hold black and   *)
(* white pixels too.                                                       *)
(***************************************************************************)
Black == <<0, 0, 0, 255>>
White == <<255, 255, 255, 255>>
RangePixels == {Black, White, MidA, Ghost}

\* 1, 1.5, -0.01 and -0.5, in hundredths
RangeThresholds == {100, 150, 0 - 1, 0 - 50}

RangeInit == SortInitWith(RangePixels, RangeThresholds, SortLengths, {0})

RangeSpec == RangeInit /\ [][SortNext]_vars

(***************************************************************************)
(* sortRow handed a buffer that holds one row more, or one row less, than  *)
(* the width and height it is called with.                                 *)
(***************************************************************************)
MismatchRows == {0 - 1, 1}

MismatchInit ==
    SortInitWith(PalettePixels, SortThresholds, SortLengths, MismatchRows)

MismatchSpec == MismatchInit /\ [][SortNext]_vars

(***************************************************************************)
(* The recoloring on its own: sortRow on a row of one opaque pixel whose   *)
(* channels are any of ChannelLevels, under threshold 0.                   *)
(***************************************************************************)
ChannelLevels == {0, 1, 51, 128, 210, 230, 250, 254, 255}
RecolorPixels == {<<r, g, b, 255>> : r, g, b \in ChannelLevels}
RecolorLengths == {1, DefaultSortLength}

RecolorInit ==
    /\ width = 1
    /\ SortInitWith(RecolorPixels, {0}, RecolorLengths, {0})

RecolorSpec == RecolorInit /\ [][SortNext]_vars

(***************************************************************************)
(* sortRow under a sortLength that is not positive.  The loop of sortRow   *)
(* runs on without pause, so a pass that can change the state is taken.    *)
(***************************************************************************)
NoSortLengths == {0, 0 - 1}

NoLengthInit ==
    SortInitWith(PalettePixels, SortThresholds, NoSortLengths, {0})

NoLengthSpec ==
    NoLengthInit /\ [][SortNext]_vars /\ WF_vars(SortRowStep)

(***************************************************************************)
(* The glyph mapper on its own: one tick of the enabled ascii-shader on a  *)
(* grid of two cells in a 3 x 2 window with fontSize 2.  The two cells     *)
(* hold any brightness and a brightness GlyphSteps above it; the charset   *)
(* is any of GlyphCharsets, the empty string among them.                   *)
(***************************************************************************)
\* an opaque pixel whose channels sum to s
PixelOfSum(s) == <<(s + 2) \div 3, (s + 1) \div 3, s \div 3, 255>>

GlyphCharsets ==
    {<<>>, <<"x">>, <<" ", "#">>, <<"a", "b", "c">>, DefaultCharacters}
GlyphSteps == {0, 1, 85}

GlyphInit ==
    /\ innerWidth = 3
    /\ innerHeight = 2
    /\ now = 0
    /\ webglDisplay = "none"
    /\ psData = [enabled |-> FALSE, threshold |-> DefaultThreshold,
                 sortLength |-> DefaultSortLength]
    /\ sorterCanvas = [display |-> "none", width |-> CanvasDefaultWidth,
                       height |-> CanvasDefaultHeight, image |-> Blank]
    /\ asData \in [enabled : {TRUE}, characters : GlyphCharsets, fontSize : {2}]
    /\ LET u == AsUpdate(asData,
                         [display |-> "none", width |-> CanvasDefaultWidth,
                          height |-> CanvasDefaultHeight, image |-> Blank],
                         [width |-> CanvasDefaultWidth,
                          height |-> CanvasDefaultHeight],
                         Undefined, Undefined, innerWidth, innerHeight)
       IN  /\ asciiCanvas = u[1]
           /\ sampleCanvas = u[2]
           /\ cols = u[3]
           /\ rows = u[4]
    /\ asciiEnabled = TRUE
    /\ pc = "asTick"
    /\ \E b \in 0 .. 765, d \in GlyphSteps :
          /\ b + d <= 765
          /\ scene = <<PixelOfSum(b), PixelOfSum(b + d)>>
    /\ data = <<>>
    /\ inData = <<>>
    /\ runs = <<>>
    /\ width = 0
    /\ height = 0
    /\ y = 0
    /\ x = 0
    /\ applied = {}
    /\ thrown = NoError
    /\ inputs = 1
    /\ PageInit

GlyphNext == AsTick

GlyphSpec == GlyphInit /\ [][GlyphNext]_vars

(***************************************************************************)
(* Properties of sortRow, stated on the history of the call: inData is     *)
(* the buffer as the call received it, runs the runs it has processed.     *)
(***************************************************************************)
\* the pixel of column x0 of row y0 of the buffer as the tick received it
InPixel(y0, x0) == inData[y0 * width + x0 + 1]

\* alpha > 10 and (r + g + b) / 3 > threshold * 255, on the input values
Qualifying(y0, x0) ==
    /\ InPixel(y0, x0)[4] > 10
    /\ 100 * (InPixel(y0, x0)[1] + InPixel(y0, x0)[2] + InPixel(y0, x0)[3])
         > 765 * psData.threshold

\* the runs of row y0 that hold column x0
RunsHolding(y0, x0) ==
    {k \in DOMAIN runs :
        runs[k].y = y0 /\ runs[k].startX <= x0 /\ x0 < runs[k].endX}

\* how many times pixel p occurs in the sequence q
Count(q, p) == Cardinality({i \in DOMAIN q : q[i] = p})

\* the input pixels at the positions of run r
InputOfRun(r) ==
    [k \in 1 .. r.endX - r.startX |-> InPixel(r.y, r.startX + k - 1)]

\* C1: the runs sortRow processes in a row hold exactly the pixels of the
\* input row with alpha > 10 and brightness > threshold * 255: no other
\* pixel is in a run, no pixel is in two runs, and once sortRow has
\* returned every such pixel is in one run.
C1_RunsCoverQualifying ==
    /\ \A k \in DOMAIN runs : \A x0 \in runs[k].startX .. runs[k].endX - 1 :
          Qualifying(runs[k].y, x0)
    /\ \A x0 \in 0 .. width - 1 : Cardinality(RunsHolding(y, x0)) <= 1
    /\ pc = "rowDone" =>
          \A x0 \in 0 .. width - 1 :
              Qualifying(y, x0) => Cardinality(RunsHolding(y, x0)) = 1

\* a returned call with a run cut by sortLength right before a qualifying
\* pixel, and a pixel that does not qualify
C1_Witness ==
    /\ pc = "rowDone"
    /\ \E k \in DOMAIN runs :
          /\ runs[k].endX - runs[k].startX = psData.sortLength
          /\ runs[k].endX < width
          /\ Qualifying(y, runs[k].endX)
    /\ \E x0 \in 0 .. width - 1 : ~Qualifying(y, x0)

\* C2: the sorted list of every run is non-decreasing in brightness, and
\* the pixels of one brightness stand in it in their input order.
C2_SortedAndStable ==
    \A k \in DOMAIN runs :
        LET in  == InputOfRun(runs[k])
            out == runs[k].sorted
        IN  /\ \A i \in 1 .. Len(out) - 1 :
                  out[i][1] + out[i][2] + out[i][3]
                    <= out[i + 1][1] + out[i + 1][2] + out[i + 1][3]
            /\ \A b \in {in[i][1] + in[i][2] + in[i][3] : i \in DOMAIN in} :
                  LET HasB(p) == p[1] + p[2] + p[3] = b
                  IN  SelectSeq(out, HasB) = SelectSeq(in, HasB)

\* a run with two different pixels of one brightness behind a brighter one
C2_Witness ==
    \E k \in DOMAIN runs :
        LET in == InputOfRun(runs[k])
        IN  \E h, i, j \in DOMAIN in :
               /\ h < i /\ i < j
               /\ in[i] # in[j]
               /\ in[i][1] + in[i][2] + in[i][3] = in[j][1] + in[j][2] + in[j][3]
               /\ in[h][1] + in[h][2] + in[h][3] > in[i][1] + in[i][2] + in[i][3]

\* C3: the sorted list of every run is a permutation of the input pixels
\* at the run's own positions startX .. endX - 1.
C3_SortedIsPermutationOfRun ==
    \A k \in DOMAIN runs :
        LET in  == InputOfRun(runs[k])
            out == runs[k].sorted
        IN  /\ Len(out) = Len(in)
            /\ \A i \in DOMAIN in : Count(out, in[i]) = Count(in, in[i])

\* two runs with one dim opaque pixel between them, the first of them
\* reordered by the sort
C3_Witness ==
    \E k \in DOMAIN runs :
        /\ k + 1 \in DOMAIN runs
        /\ runs[k].y = runs[k + 1].y
        /\ runs[k + 1].startX = runs[k].endX + 1
        /\ InPixel(runs[k].y, runs[k].endX)[4] > 10
        /\ runs[k].sorted # InputOfRun(runs[k])

\* C4: the runs of a row come left to right, each starting at or after the
\* end of the one before it; each is non-empty, lies inside the row and is
\* at most sortLength long.
C4_RunsOrderedAndCapped ==
    /\ \A k \in DOMAIN runs :
          /\ 0 <= runs[k].startX
          /\ runs[k].startX < runs[k].endX
          /\ runs[k].endX <= width
          /\ runs[k].endX - runs[k].startX <= psData.sortLength
    /\ \A k \in DOMAIN runs :
          (k + 1 \in DOMAIN runs /\ runs[k].y = runs[k + 1].y)
             => runs[k + 1].startX >= runs[k].endX

\* a run cut by sortLength, followed by a run that ends at the right edge
C4_Witness ==
    \E k \in DOMAIN runs :
        /\ k + 1 \in DOMAIN runs
        /\ runs[k].endX - runs[k].startX = psData.sortLength
        /\ runs[k + 1].startX = runs[k].endX
        /\ runs[k + 1].endX = width

(***************************************************************************)
(* Properties of the two effects under the render loop and the UI.         *)
(***************************************************************************)
\* the steps of the render loop that lie inside pixel-sorter.tick's body
InPsBody == pc \in {"sortRow", "rowDone", "putImageData"}

\* C5: the body of an effect's tick runs in a frame exactly if the effect's
\* enabled flag is true in that frame, and a tick of a disabled effect
\* changes no canvas, no cached size and no buffer.
C5_ApplyIffEnabled ==
    /\ [](/\ InPsBody => psData.enabled
          /\ (InPsBody \/ pc \in {"asTick", "frameEnd"})
                => (("pixel-sorter" \in applied) <=> psData.enabled)
          /\ pc = "frameEnd"
                => (("ascii-shader" \in applied) <=> asData.enabled))
    /\ [][/\ (pc = "psTick" /\ pc' # "psTick" /\ ~psData.enabled)
                => UNCHANGED <<sorterCanvas, asciiCanvas, sampleCanvas, cols,
                               rows, webglDisplay, data, inData, runs>>
          /\ (pc = "asTick" /\ pc' # "asTick" /\ ~asData.enabled)
                => UNCHANGED <<sorterCanvas, asciiCanvas, sampleCanvas, cols,
                               rows, webglDisplay, data, inData, runs>>]_vars

\* a frame in which the pixel-sorter ran and the ascii-shader, disabled
\* after it had drawn, did not
C5_Witness ==
    /\ pc = "frameEnd"
    /\ applied = {"pixel-sorter"}
    /\ ~asData.enabled
    /\ asciiCanvas.image # Blank

\* C6: after every update of an effect, its overlay is shown and the scene
\* canvas hidden if enabled is true, and its overlay is hidden and the
\* scene canvas shown if enabled is false.
C6_UpdateSetsDisplay ==
    [][/\ psData' # psData
            => IF psData'.enabled
               THEN sorterCanvas'.display = "block" /\ webglDisplay' = "none"
               ELSE sorterCanvas'.display = "none" /\ webglDisplay' = "block"
       /\ asData' # asData
            => IF asData'.enabled
               THEN asciiCanvas'.display = "block" /\ webglDisplay' = "none"
               ELSE asciiCanvas'.display = "none" /\ webglDisplay' = "block"]_vars

\* the pixel-sorter, alone, disabled after it had been enabled
C6_Witness ==
    /\ ~psData.enabled
    /\ sorterCanvas.width # CanvasDefaultWidth
    /\ sorterCanvas.display = "none"
    /\ webglDisplay = "block"
    /\ asciiCanvas.width = CanvasDefaultWidth

\* C7: in no frame do both the pixel-sort body and the ASCII body run.
C7_OneApplyPerFrame == ~({"pixel-sorter", "ascii-shader"} \subseteq applied)

\* C8: all runs of all rows of one tick are recolored with one time value.
C8_OneTimePerTick ==
    \A i, j \in DOMAIN runs : runs[i].time = runs[j].time

\* C9: when the window is resized between two frames while an effect is
\* enabled, the effect's cached sizes are recomputed from the new size:
\* the overlay takes the window's size, and cols and rows follow from it.
C9_ResizeRecomputes ==
    [][(pc = "idle" /\ <<innerWidth', innerHeight'>> # <<innerWidth, innerHeight>>)
          => /\ asData.enabled
                  => /\ asciiCanvas'.width = innerWidth'
                     /\ asciiCanvas'.height = innerHeight'
                     /\ cols' = (10 * innerWidth') \div (6 * asData.fontSize)
                     /\ rows' = innerHeight' \div asData.fontSize
             /\ psData.enabled
                  => /\ sorterCanvas'.width = innerWidth'
                     /\ sorterCanvas'.height = innerHeight']_vars

\* C10: no step of a frame changes cols, rows, the sample canvas' size or
\* an overlay's size, whatever the window's size has become.
C10_TickKeepsGrid ==
    [][pc # "idle"
          => /\ cols' = cols
             /\ rows' = rows
             /\ sampleCanvas' = sampleCanvas
             /\ asciiCanvas'.width = asciiCanvas.width
             /\ asciiCanvas'.height = asciiCanvas.height
             /\ sorterCanvas'.width = sorterCanvas.width
             /\ sorterCanvas'.height = sorterCanvas.height]_vars

\* the ASCII body has drawn a frame on a grid that is not the one the
\* window's present size gives
C10_Witness ==
    /\ pc = "frameEnd"
    /\ "ascii-shader" \in applied
    /\ asciiCanvas.image # Blank
    /\ asciiCanvas.width # innerWidth
    /\ asciiCanvas.height # innerHeight
    /\ cols # (10 * innerWidth) \div (6 * asData.fontSize)

\* C11: after every enable of the ASCII effect with fontSize > 0, cols is
\* floor(viewportWidth / (fontSize * 0.6)) and rows is
\* floor(viewportHeight / fontSize) for the window at that moment, the
\* sample canvas is cols x rows and the overlay has the window's size.
C11_EnableSizesGrid ==
    [][(~asData.enabled /\ asData'.enabled /\ asData'.fontSize > 0)
          => /\ 6 * asData'.fontSize * cols' <= 10 * innerWidth'
             /\ 10 * innerWidth' < 6 * asData'.fontSize * (cols' + 1)
             /\ asData'.fontSize * rows' <= innerHeight'
             /\ innerHeight' < asData'.fontSize * (rows' + 1)
             /\ sampleCanvas' = [width |-> cols', height |-> rows']
             /\ asciiCanvas'.width = innerWidth'
             /\ asciiCanvas'.height = innerHeight']_vars

\* the ASCII effect enabled, between frames, on a grid with more columns
\* than rows
C11_Witness ==
    /\ pc = "idle"
    /\ asData.enabled
    /\ rows >= 1
    /\ cols > rows
    /\ sampleCanvas = [width |-> cols, height |-> rows]
    /\ asciiCanvas.width = innerWidth
    /\ asciiCanvas.height = innerHeight

(***************************************************************************)
(* Properties of the glyph mapper, stated on the draws of a tick whose     *)
(* cells are all foreground cells: draw 2k and 2k + 1 are those of cell k. *)
(***************************************************************************)
\* r + g + b of the pixel sampled into cell k
CellSum(k) ==
    LET p == DrawImage(scene, cols, rows)[k] IN p[1] + p[2] + p[3]

\* the glyph drawn for cell k
CellGlyph(k) == asciiCanvas.image[2 * k + 1].text

\* the position of glyph g in a charset of distinct glyphs
GlyphIndex(chars, g) == CHOOSE i \in 0 .. Len(chars) - 1 : chars[i + 1] = g

\* a tick has drawn every cell from a non-empty charset
GlyphsDrawn ==
    /\ pc = "frameEnd"
    /\ "ascii-shader" \in applied
    /\ Len(asData.characters) >= 1
    /\ Len(asciiCanvas.image) = 2 * cols * rows + 1

\* C12 as stated: for every non-empty charset of length n the glyph of a
\* cell is charset[charIndex] with charIndex the floor of
\* ((r + g + b) / 3) / 255 * (n - 1); charIndex is in 0..n-1, is 0 for
\* brightness 0, is n - 1 only for brightness 255, and does not decrease
\* when brightness grows.
C12_GlyphByBrightness ==
    GlyphsDrawn =>
        LET chars == asData.characters
            n == Len(chars)
        IN  /\ \A k \in 1 .. cols * rows :
                  \E i \in 0 .. n - 1 :
                      /\ CellGlyph(k) = chars[i + 1]
                      /\ 765 * i <= CellSum(k) * (n - 1)
                      /\ CellSum(k) * (n - 1) < 765 * (i + 1)
                      /\ CellSum(k) = 0 => i = 0
                      /\ i = n - 1 => CellSum(k) = 765
            /\ \A j, k \in 1 .. cols * rows :
                  CellSum(j) <= CellSum(k)
                      => GlyphIndex(chars, CellGlyph(j))
                             <= GlyphIndex(chars, CellGlyph(k))

\* C12, amended: for every non-empty charset of length n the glyph of a
\* cell is charset[charIndex] with charIndex in 0..n-1; charIndex is the
\* floor of ((r + g + b) / 3) / 255 * (n - 1), or one below it when that
\* product is a whole number and brightness is neither 0 nor 255;
\* charIndex is 0 for brightness 0, for n >= 2 it is n - 1 only for
\* brightness 255, and it does not decrease when brightness grows.
C12_GlyphByBrightnessRounded ==
    GlyphsDrawn =>
        LET chars == asData.characters
            n == Len(chars)
        IN  /\ \A k \in 1 .. cols * rows :
                  \E i \in 0 .. n - 1 :
                      /\ CellGlyph(k) = chars[i + 1]
                      /\ \/ /\ 765 * i <= CellSum(k) * (n - 1)
                            /\ CellSum(k) * (n - 1) < 765 * (i + 1)
                         \/ /\ 765 * (i + 1) = CellSum(k) * (n - 1)
                            /\ CellSum(k) > 0
                            /\ CellSum(k) < 765
                      /\ CellSum(k) = 0 => i = 0
                      /\ (n >= 2 /\ i = n - 1) => CellSum(k) = 765
            /\ \A j, k \in 1 .. cols * rows :
                  CellSum(j) <= CellSum(k)
                      => GlyphIndex(chars, CellGlyph(j))
                             <= GlyphIndex(chars, CellGlyph(k))

\* brightness 128 under the ten default glyphs is drawn as "=", and the
\* brighter cell beside it as "+"
C12_Witness ==
    /\ GlyphsDrawn
    /\ asData.characters = DefaultCharacters
    /\ CellSum(1) = 384
    /\ CellGlyph(1) = "="
    /\ CellSum(2) = 384 + 85
    /\ CellGlyph(2) = "+"

\* C13: with an empty charset no tick of the ASCII effect looks a glyph up
\* outside the charset: no draw is made with the undefined value such a
\* lookup yields.
C13_NoLookupOutsideCharset ==
    \A k \in DOMAIN asciiCanvas.image :
        asciiCanvas.image[k].op = "fillText"
            => asciiCanvas.image[k].text # "undefined"

\* C14: with sortLength <= 0 the call sortRow returns for every row, rows
\* that hold a qualifying pixel included, and modifies no pixel.
C14_RowReturnsUntouched == <>(pc = "rowDone") /\ [](data = inData)

\* C15: with fontSize <= 0 and the ASCII effect enabled, cols and rows are
\* never infinite, negative or undefined when the body of a tick has run,
\* and no tick fails reading the sample buffer.
C15_GridStaysUsable ==
    /\ thrown = NoError
    /\ "ascii-shader" \in applied
          => /\ cols >= 0 /\ cols < Infinity
             /\ rows >= 0 /\ rows < Infinity

\* C16: a threshold outside [0, 1] is used as it is, without clamping and
\* without an error: under a threshold >= 1 no pixel is in a run and
\* sortRow leaves the row as it was; under a threshold < 0 the pixels in
\* runs are exactly the pixels with alpha > 10.
C16_ThresholdUsedAsIs ==
    /\ thrown = NoError
    /\ psData.threshold >= 100 => (runs = <<>> /\ data = inData)
    /\ psData.threshold < 0 =>
          /\ \A k \in DOMAIN runs :
                \A x0 \in runs[k].startX .. runs[k].endX - 1 :
                    InPixel(runs[k].y, x0)[4] > 10
          /\ pc = "rowDone" =>
                \A x0 \in 0 .. width - 1 :
                    InPixel(y, x0)[4] > 10 => RunsHolding(y, x0) # {}

\* a returned call under a negative threshold that sorted a black pixel
\* behind a transparent one
C16_Witness ==
    /\ pc = "rowDone"
    /\ psData.threshold < 0
    /\ \E k \in DOMAIN runs :
          /\ runs[k].startX > 0
          /\ InPixel(y, runs[k].startX - 1) = Ghost
          /\ \E i \in DOMAIN runs[k].pixels : runs[k].pixels[i] = Black

Slots == UNION {{<<k, i>> : i \in DOMAIN runs[k].sorted} : k \in DOMAIN runs}

\* the HSL saturation of pixel p, (max - min) / (1 - |2 l - 1|), and 0 for
\* a gray pixel
SaturationOf(p) ==
    LET hi == CHOOSE c \in {p[1], p[2], p[3]} :
                  \A e \in {p[1], p[2], p[3]} : e <= c
        lo == CHOOSE c \in {p[1], p[2], p[3]} :
                  \A e \in {p[1], p[2], p[3]} : c <= e
    IN  IF hi = lo THEN <<0, 1>>
        ELSE Rat(hi - lo, 255 - Abs(hi + lo - 255))

\* the HSL lightness of pixel p, (max + min) / 2
LightnessOf(p) ==
    LET hi == CHOOSE c \in {p[1], p[2], p[3]} :
                  \A e \in {p[1], p[2], p[3]} : e <= c
        lo == CHOOSE c \in {p[1], p[2], p[3]} :
                  \A e \in {p[1], p[2], p[3]} : c <= e
    IN  Rat(hi + lo, 510)

\* C18: for every recolored pixel the saturation the output is computed
\* from is min(1, s + 0.5), s the HSL saturation of the sorted pixel; it
\* lies in [0.5, 1]; and the lightness the output is computed from is the
\* sorted pixel's lightness.
C18_SaturationRaisedAndCapped ==
    \A sl \in Slots :
        LET p  == runs[sl[1]].sorted[sl[2]]
            o  == runs[sl[1]].hsl[sl[2]]
            s  == SaturationOf(p)
        IN  /\ IF 2 * s[1] >= s[2] THEN o[2] = <<1, 1>>
               ELSE o[2] = Rat(2 * s[1] + s[2], 2 * s[2])
            /\ 2 * o[2][1] >= o[2][2]
            /\ o[2][1] <= o[2][2]
            /\ o[3] = LightnessOf(p)

\* a pixel of saturation 0.8 recolored with saturation 1
C18_Witness ==
    \E sl \in Slots :
        /\ SaturationOf(runs[sl[1]].sorted[sl[2]]) = <<4, 5>>
        /\ runs[sl[1]].hsl[sl[2]][2] = <<1, 1>>
        /\ data # inData

\* the pixel the buffer holds at slot sl of its run
Written(sl) ==
    data[runs[sl[1]].y * width + runs[sl[1]].startX + sl[2]]

\* the alpha values of the pixels of sequence q, as a bag
AlphaBag(q, a) == Cardinality({i \in DOMAIN q : q[i][4] = a})

\* C19: for every slot of every run the R, G, B written are integers in
\* 0..255, the floor of 255 times the converted values, and the alpha
\* written is the alpha of the pixel sorted into the slot; the alpha values
\* of a run are the same multiset after the run is written as before, and
\* every pixel of a processed run still has alpha > 10.
C19_BytesFlooredAlphaKept ==
    /\ \A sl \in Slots :
          LET o   == runs[sl[1]].hsl[sl[2]]
              rgb == HslToRgb(o[1], o[2], o[3])
              w   == Written(sl)
          IN  /\ \A c \in 1 .. 3 :
                    /\ w[c] \in 0 .. 255
                    /\ w[c] * rgb[c][2] <= 255 * rgb[c][1]
                    /\ 255 * rgb[c][1] < (w[c] + 1) * rgb[c][2]
              /\ w[4] = runs[sl[1]].sorted[sl[2]][4]
              /\ w[4] > 10
    /\ \A k \in DOMAIN runs :
          LET before == InputOfRun(runs[k])
              after  == [i \in DOMAIN runs[k].sorted |-> Written(<<k, i>>)]
          IN  \A a \in {before[i][4] : i \in DOMAIN before}
                       \cup {after[i][4] : i \in DOMAIN after} :
                  AlphaBag(after, a) = AlphaBag(before, a)

\* a run of two pixels of different alpha that the sort has exchanged
C19_Witness ==
    \E k \in DOMAIN runs :
        /\ Len(runs[k].sorted) = 2
        /\ runs[k].pixels[1][4] # runs[k].pixels[2][4]
        /\ runs[k].sorted[1] = runs[k].pixels[2]
        /\ Written(<<k, 1>>)[4] = runs[k].pixels[2][4]
        /\ Written(<<k, 2>>)[4] = runs[k].pixels[1][4]

\* the bytes RGB -> HSL -> RGB gives for pixel p when hue and saturation
\* are left as converted
RoundTrips(p) ==
    LET hsl == RgbToHsl(p)
        rgb == HslToRgb(hsl[1], hsl[2], hsl[3])
    IN  {<<ToUint8Clamped(r), ToUint8Clamped(g), ToUint8Clamped(b)>> :
            r \in FloorsOfDouble(RMul(rgb[1], RInt(255))),
            g \in FloorsOfDouble(RMul(rgb[2], RInt(255))),
            b \in FloorsOfDouble(RMul(rgb[3], RInt(255)))}

\* C20: for every RGB triple the conversion RGB -> HSL -> RGB with the
\* program's formulas and floor, without hue shift and without change of
\* saturation, gives each channel back within 1.
C20_RoundTripWithinOne ==
    \A x0 \in 0 .. width - 1 :
        \A out \in RoundTrips(InPixel(y, x0)) : \A c \in 1 .. 3 :
            /\ out[c] - InPixel(y, x0)[c] <= 1
            /\ InPixel(y, x0)[c] - out[c] <= 1

\* a fully saturated colour recolored at a moment of no hue shift: the
\* bytes written are a round trip of the pixel
C20_Witness ==
    \E sl \in Slots :
        LET p == runs[sl[1]].sorted[sl[2]]
        IN  /\ SaturationOf(p) = <<1, 1>>
            /\ runs[sl[1]].hsl[sl[2]] = RgbToHsl(p)
            /\ p[1] # p[2]
            /\ <<Written(sl)[1], Written(sl)[2], Written(sl)[3]>>
                   \in RoundTrips(p)

(***************************************************************************)
(* C21: a tick of either effect never modifies the effect configuration.   *)
(* Every step that changes this.data of the pixel sorter (enabled,         *)
(* threshold, sortLength) or of the ASCII shader (enabled, characters,     *)
(* fontSize) is taken between two frames and is one act of the user that   *)
(* is not a resize of the window: a slider input or a click of the ASCII   *)
(* button.  No step between the begin and the end of a frame changes       *)
(* either.                                                                 *)
(***************************************************************************)
C21_TickKeepsConfig ==
    [][(psData' # psData \/ asData' # asData)
         => /\ pc = "idle"
            /\ pc' = "idle"
            /\ inputs' = inputs + 1
            /\ innerWidth' = innerWidth
            /\ innerHeight' = innerHeight
            /\ \/ \E value \in SliderValues :
                      /\ psData' = SliderData(psData, value)
                      /\ asData' = asData
               \/ /\ asData' = [asData EXCEPT !.enabled = ~asciiEnabled]
                  /\ psData' = psData]_vars

\* both ticks have run their body in one frame, the sorter has processed a
\* run, and the configuration is the one the slider and the button left
C21_Witness ==
    /\ pc = "frameEnd"
    /\ applied = {"pixel-sorter", "ascii-shader"}
    /\ Len(runs) > 0
    /\ psData = [enabled |-> TRUE, threshold |-> 59,
                 sortLength |-> DefaultSortLength]
    /\ asData.enabled
    /\ asData.characters = DefaultCharacters

(***************************************************************************)
(* The split of a row into runs.                                           *)
(***************************************************************************)
\* the maximal intervals a .. b - 1 of qualifying pixels of row y
MaximalIntervals ==
    {iv \in (0 .. width - 1) \X (1 .. width) :
        /\ iv[1] < iv[2]
        /\ \A x0 \in iv[1] .. iv[2] - 1 : Qualifying(y, x0)
        /\ iv[1] = 0 \/ ~Qualifying(y, iv[1] - 1)
        /\ iv[2] = width \/ ~Qualifying(y, iv[2])}

\* Math.ceil(l / n) for whole l >= 0 and n > 0
CeilDiv(l, n) == (l + n - 1) \div n

\* the runs of row y that start inside the interval iv
RunsStartingIn(iv) ==
    {k \in DOMAIN runs :
        runs[k].y = y /\ iv[1] <= runs[k].startX /\ runs[k].startX < iv[2]}

\* C22: for whole sortLength > 0, once sortRow has returned, a maximal
\* interval of L consecutive qualifying pixels of the row has been split
\* into ceil(L / sortLength) runs that follow each other without a gap:
\* the j-th of them starts sortLength * j pixels into the interval and is
\* sortLength long, except that the last one ends where the interval ends;
\* no run reaches beyond its interval.
C22_IntervalSplitByCap ==
    (pc = "rowDone" /\ psData.sortLength > 0) =>
        \A iv \in MaximalIntervals :
            LET len == psData.sortLength
                n   == CeilDiv(iv[2] - iv[1], len)
            IN  /\ Cardinality(RunsStartingIn(iv)) = n
                /\ \A j \in 0 .. n - 1 :
                      \E k \in RunsStartingIn(iv) :
                          /\ runs[k].startX = iv[1] + j * len
                          /\ runs[k].endX =
                                IF j < n - 1 THEN iv[1] + (j + 1) * len
                                ELSE iv[2]
                          /\ j > 0 => /\ k - 1 \in RunsStartingIn(iv)
                                      /\ runs[k - 1].endX = runs[k].startX

\* a returned call on a row with an interval that the cap cuts into a full
\* run and a shorter last one, and a pixel that does not qualify
C22_Witness ==
    /\ pc = "rowDone"
    /\ \E iv \in MaximalIntervals :
          /\ iv[2] - iv[1] > psData.sortLength
          /\ (iv[2] - iv[1]) % psData.sortLength # 0
          /\ Cardinality(RunsStartingIn(iv)) >= 2
    /\ \E x0 \in 0 .. width - 1 : ~Qualifying(y, x0)

RowScenes == [1 .. MaxRowWidth -> {Dim, Bright, Ghost}]

\* the pixel sorter enabled, its canvas sized by update, no frame begun
RowsInit ==
    /\ psData \in [enabled : {TRUE}, threshold : {DefaultThreshold},
                   sortLength : SortLengths]
    /\ innerWidth \in 1 .. MaxRowWidth
    /\ innerHeight = MaxHeight - 1
    /\ sorterCanvas = [display |-> "block", width |-> innerWidth,
                       height |-> innerHeight, image |-> Blank]
    /\ webglDisplay = "none"
    /\ now = 0
    /\ asData = [enabled |-> FALSE, characters |-> DefaultCharacters,
                 fontSize |-> 1]
    /\ asciiCanvas = [display |-> "none", width |-> CanvasDefaultWidth,
                      height |-> CanvasDefaultHeight, image |-> Blank]
    /\ sampleCanvas = [width |-> CanvasDefaultWidth,
                       height |-> CanvasDefaultHeight]
    /\ cols = Undefined
    /\ rows = Undefined
    /\ asciiEnabled = FALSE
    /\ pc = "idle"
    /\ scene = NoScene
    /\ data = <<>>
    /\ inData = <<>>
    /\ runs = <<>>
    /\ width = 0
    /\ height = 0
    /\ y = 0
    /\ x = 0
    /\ applied = {}
    /\ thrown = NoError
    /\ inputs = 0
    /\ PageInit

\* a frame begins with any of RowScenes in the scene canvas
RowsFrameBegin ==
    /\ UNCHANGED pageVars
    /\ pc = "idle"
    /\ pc' = "psTick"
    /\ scene' \in RowScenes
    /\ UNCHANGED <<envVars, webglDisplay, psVars, asVars, data, width, height,
                   y, x, inData, runs, histVars>>

RowsNext ==
    \/ RowsFrameBegin
    \/ PsTick
    \/ SortRowStep
    \/ PsTickNextRow
    \/ PsTickPut

\* Weak fairness of every step of the tick.  A pass of sortRow's loop is
\* possible exactly when pc = "sortRow", and its weak fairness is written
\* with that: either the thread is infinitely often outside the loop, or
\* it takes infinitely many passes.
RowsSpec ==
    /\ RowsInit
    /\ [][RowsNext]_vars
    /\ WF_vars(PsTick)
    /\ ([]<>(pc # "sortRow") \/ []<><<SortRowStep>>_vars)
    /\ WF_vars(PsTickNextRow)
    /\ WF_vars(PsTickPut)

\* C24: for sortLength > 0 sortRow terminates on every row: a pass of the
\* outer loop that does not end the scan moves x at least one pixel to the
\* right, no row gets more than width runs, every call of sortRow returns,
\* and the tick gets past putImageData.
C24_RowScanTerminates ==
    /\ [][(pc = "sortRow" /\ pc' = "sortRow") => x' > x]_vars
    /\ [](Cardinality({k \in DOMAIN runs : runs[k].y = y}) <= width)
    /\ [](pc = "sortRow" => <>(pc = "rowDone"))
    /\ [](pc = "psTick" => <>(pc = "asTick"))

\* a row of width qualifying pixels under sortLength 1 has been scanned in
\* width passes and the call has returned
C24_Witness ==
    /\ pc = "rowDone"
    /\ psData.sortLength = 1
    /\ width = MaxRowWidth
    /\ Cardinality({k \in DOMAIN runs : runs[k].y = y}) = width

(***************************************************************************)
(* C25: between an enable of an effect and its next disable the derived    *)
(* dimensions are computed once, at the enable.  A step that finds an      *)
(* effect enabled and leaves it enabled, a slider input with a new         *)
(* threshold included, leaves the effect's overlay size as it is, and for  *)
(* the ASCII effect also cols, rows and the sample canvas' size.           *)
(***************************************************************************)
C25_DimensionsOncePerEnable ==
    [][((psData.enabled /\ psData'.enabled)
          => (/\ sorterCanvas'.width = sorterCanvas.width
              /\ sorterCanvas'.height = sorterCanvas.height))
       /\
       ((asData.enabled /\ asData'.enabled)
          => (/\ asciiCanvas'.width = asciiCanvas.width
              /\ asciiCanvas'.height = asciiCanvas.height
              /\ sampleCanvas' = sampleCanvas
              /\ cols' = cols
              /\ rows' = rows))]_vars

(***************************************************************************)
(* The order of the draw calls of an ASCII tick.                           *)
(***************************************************************************)
\* the pixels the tick has sampled, cell by cell in row-major order
SampledCells == DrawImage(scene, ImageSize(cols), ImageSize(rows))

\* how many draw calls the tick has made before it reaches cell k
DrawsBefore(cells, k) ==
    1 + (k - 1) + Cardinality({j \in 1 .. k - 1 : cells[j][4] > 10})

\* C26: when the body of an enabled ASCII tick has run, the draw calls on
\* the overlay are: first one fillRect in the background colour (10, 10,
\* 26), and no other fillRect; then, for each cell in row-major order, for
\* a cell of alpha > 10 the glyph in black at (+1, +1) followed by the same
\* glyph at the cell's position in the tint colour, and for a cell of
\* alpha <= 10 one glyph at the cell's position in 0.4 times the tint; and
\* nothing else.
C26_ClearThenCellsInOrder ==
    (pc = "frameEnd" /\ "ascii-shader" \in applied /\ thrown = NoError) =>
        LET img   == asciiCanvas.image
            cells == SampledCells
            n     == cols * rows
            fs    == asData.fontSize
        IN  /\ Len(cells) = n
            /\ Len(img) = DrawsBefore(cells, n + 1)
            /\ img[1].op = "fillRect"
            /\ img[1].fillStyle = <<10, 10, 26>>
            /\ \A k \in 2 .. Len(img) : img[k].op = "fillText"
            /\ \A k \in 1 .. n :
                  LET p    == cells[k]
                      at   == DrawsBefore(cells, k)
                      x0   == (k - 1) % cols
                      y0   == (k - 1) \div cols
                      tx   == Rat(6 * x0 * fs, 10)
                      ty   == RInt(y0 * fs + fs)
                      tint == <<Tint(p, p[1]), Tint(p, p[2]), Tint(p, p[3])>>
                  IN  IF p[4] > 10
                      THEN /\ img[at + 1].fillStyle = <<0, 0, 0>>
                           /\ img[at + 1].x = RAdd(tx, RInt(1))
                           /\ img[at + 1].y = RAdd(ty, RInt(1))
                           /\ img[at + 2].fillStyle = tint
                           /\ img[at + 2].x = tx
                           /\ img[at + 2].y = ty
                           /\ img[at + 2].text = img[at + 1].text
                           /\ DrawsBefore(cells, k + 1) = at + 2
                      ELSE /\ img[at + 1].fillStyle =
                                  <<DimTint(tint[1]), DimTint(tint[2]),
                                    DimTint(tint[3])>>
                           /\ img[at + 1].x = tx
                           /\ img[at + 1].y = ty
                           /\ DrawsBefore(cells, k + 1) = at + 1

\* a tick over a grid of at least two columns and two rows that holds a
\* cell of alpha <= 10 between cells of alpha > 10
C26_Witness ==
    /\ pc = "frameEnd"
    /\ "ascii-shader" \in applied
    /\ thrown = NoError
    /\ cols >= 2
    /\ rows >= 2
    /\ \E k \in 2 .. cols * rows - 1 :
          /\ SampledCells[k][4] <= 10
          /\ SampledCells[k - 1][4] > 10
          /\ SampledCells[k + 1][4] > 10
          /\ SampledCells[k + 1] # <<0, 0, 0, 255>>

\* C27: after any sequence of slider inputs and clicks of the ASCII button
\* the scene canvas is displayed if and only if neither effect is enabled.
C27_RawVisibleIffNoEffect ==
    (webglDisplay = "block") <=> (~psData.enabled /\ ~asData.enabled)

(***************************************************************************)
(* The console under the keyboard: the keys that toggle it, walk its       *)
(* history, submit, and type a letter or a space.                          *)
(***************************************************************************)
ConsoleCodes ==
    {"Backquote", "ArrowUp", "ArrowDown", "Enter", "KeyC", "Space"}

ConsoleInit ==
    /\ EffectsInit({1})
    /\ innerWidth = MaxWidth
    /\ innerHeight = MaxHeight
    /\ PageInitWith(ListenerOrders)

ConsoleNext == \E code \in ConsoleCodes : KeyDown(code)

ConsoleSpec == ConsoleInit /\ [][ConsoleNext]_vars

\* C28 as claimed: historyIndex stays within -1 .. length - 1; whenever an
\* arrow key leaves historyIndex >= 0 the input shows the entry
\* consoleHistory[length - 1 - historyIndex]; ArrowDown at index 0 sets the
\* index to -1 and empties the input; Enter on an input that is not blank,
\* with the console open, appends the trimmed input to the history and
\* sets the index to -1; Enter on a blank input appends nothing.  Each is
\* said of what the key leaves when it is pressed in a reachable state.
C28_HistoryNavigation ==
    /\ 0 - 1 <= historyIndex
    /\ historyIndex <= Len(consoleHistory) - 1
    /\ \A code \in {"ArrowUp", "ArrowDown"} :
          LET q == AfterKeyDown(code)
          IN  (isOpen /\ q.historyIndex >= 0)
                 => q.inputValue = HistoryAt(q.consoleHistory, q.historyIndex)
    /\ (isOpen /\ historyIndex = 0)
          => /\ AfterKeyDown("ArrowDown").historyIndex = 0 - 1
             /\ AfterKeyDown("ArrowDown").inputValue = <<>>
    /\ LET q == AfterKeyDown("Enter")
       IN  IF isOpen /\ Trim(inputValue) # <<>>
           THEN /\ q.consoleHistory = Append(consoleHistory, Trim(inputValue))
                /\ q.historyIndex = 0 - 1
           ELSE q.consoleHistory = consoleHistory

\* C28 amended: as claimed, but the input shows the entry whenever an
\* arrow key has changed historyIndex to a value >= 0; an arrow key that
\* leaves the index where it was leaves the input as it was.
C28_HistoryNavigationOnChange ==
    /\ 0 - 1 <= historyIndex
    /\ historyIndex <= Len(consoleHistory) - 1
    /\ \A code \in {"ArrowUp", "ArrowDown"} :
          LET q == AfterKeyDown(code)
          IN  (isOpen /\ q.historyIndex >= 0)
                 => IF q.historyIndex # historyIndex
                    THEN q.inputValue =
                            HistoryAt(q.consoleHistory, q.historyIndex)
                    ELSE q.inputValue = inputValue
    /\ (isOpen /\ historyIndex = 0)
          => /\ AfterKeyDown("ArrowDown").historyIndex = 0 - 1
             /\ AfterKeyDown("ArrowDown").inputValue = <<>>
    /\ LET q == AfterKeyDown("Enter")
       IN  IF isOpen /\ Trim(inputValue) # <<>>
           THEN /\ q.consoleHistory = Append(consoleHistory, Trim(inputValue))
                /\ q.historyIndex = 0 - 1
           ELSE q.consoleHistory = consoleHistory

\* two different commands submitted, one of them typed with a space
\* around it, and ArrowUp pressed twice: the input shows the older one
C28_Witness ==
    /\ isOpen
    /\ Len(consoleHistory) = 2
    /\ consoleHistory[1] # consoleHistory[2]
    /\ historyIndex = 1
    /\ inputValue = consoleHistory[1]

(***************************************************************************)
(* The controller under the keyboard: the key that toggles the console,    *)
(* the crouch key and a movement key go down and up.                       *)
(***************************************************************************)
ControlCodes == {"Backquote", "KeyC", "KeyW"}

ControlsInit == ConsoleInit

ControlsNext ==
    \/ \E code \in ControlCodes : KeyDown(code)
    \/ \E code \in ControlCodes : KeyUp(code)

ControlsSpec == ControlsInit /\ [][ControlsNext]_vars

LoadInit ==
    /\ EffectsInit({1})
    /\ innerWidth = MaxWidth
    /\ innerHeight = MaxHeight
    /\ PageInit

LoadNext ==
    \/ ModelLoaded
    \/ SceneLoaded
    \/ ControllerTick
    \/ FallbackTimeout
    \/ HideTimeout
    \/ KeyDown("Backquote")

LoadSpec ==
    /\ LoadInit
    /\ [][LoadNext]_vars
    /\ WF_vars(FallbackTimeout)
    /\ WF_vars(HideTimeout)

\* the loading screen is fading out or gone
Hiding == "loaded" \in loadingClass \/ loadingDisplay = "none"

\* C30: the loading screen is not hidden, nor fading, before the scene has
\* emitted loaded, also when player-landed has come first; once loaded
\* has been emitted the loading screen is eventually hidden, whether or
\* not player-landed is ever emitted; and the controller emits
\* player-landed at most once.
C30_HiddenAfterLoadedOnly ==
    /\ [](Hiding => fired.loaded > 0)
    /\ (fired.loaded > 0) ~> (loadingDisplay = "none")
    /\ [](fired.landed <= 1)

\* the loading screen hidden by the fallback timeout alone, player-landed
\* never emitted
C30_Witness ==
    /\ loadingDisplay = "none"
    /\ fired.loaded = 1
    /\ fired.landed = 0
    /\ ~hasLanded
    /\ playerLanded

====
